---- MODULE Spec2Model ----
(***************************************************************************)
(* Day-of-week calculator (src/day/main.c).                                *)
(*                                                                         *)
(* main prompts once, reads one date with scanf("%d/%d/%d"), validates it  *)
(* with is_valid_date, computes an index with calculate_day_of_week and    *)
(* prints the name with print_day_name.  The functions are modelled as     *)
(* operators written branch by branch as in the C code; C's truncating     *)
(* division and remainder are CDiv and CMod.                               *)
(***************************************************************************)
EXTENDS Integers, Sequences, FiniteSets, TLC

VARIABLES
    pc,         \* position of main (or of the function harness)
    input,      \* what scanf converted: [n, d, m, y]; n = its return value
    day,        \* main's local  int day
    month,      \* main's local  int month
    year,       \* main's local  int year
    reads,      \* number of scanf calls made so far
    validated,  \* is_valid_date has been called
    valid,      \* value returned by is_valid_date
    p_day,      \* calculate_day_of_week's parameter day   (its own copy)
    p_month,    \* calculate_day_of_week's parameter month (its own copy)
    p_year,     \* calculate_day_of_week's parameter year  (its own copy)
    calls,      \* number of calls of calculate_day_of_week
    day_index,  \* main's local  int day_index
    output,     \* lines printed so far
    status,     \* exit status of the process, -1 while it runs
    ret         \* value returned by the function under the harness

vars == <<pc, input, day, month, year, reads, validated, valid,
          p_day, p_month, p_year, calls, day_index, output, status, ret>>

----------------------------------------------------------------------------
(* Bounds of the explored inputs.                                          *)

\* years tried on either side of the accepted range
YearSlack == 2
\* days tried below 1 and above 31
DaySlack == 1
\* months tried below 1 and above 12
MonthSlack == 1
\* the harness applies is_leap and get_days_in_month to -YearSpan..YearSpan
YearSpan == 2600

\* limits of the year test in is_valid_date
MinYear == 1700
MaxYear == 2500

YearIn  == (MinYear - YearSlack)..(MaxYear + YearSlack)
MonthIn == (1 - MonthSlack)..(12 + MonthSlack)
DayIn   == (1 - DaySlack)..(31 + DaySlack)

\* contents an uninitialised int local may hold
Garbage == {-1, 0}

----------------------------------------------------------------------------
(* C integer arithmetic: / and % truncate toward zero.                     *)

CDiv(a, b) == IF a >= 0 THEN a \div b ELSE -((-a) \div b)

CMod(a, b) == IF a >= 0 THEN a % b ELSE -((-a) % b)

----------------------------------------------------------------------------
(* The functions of main.c.                                                *)

is_leap_no_century(y) ==
    IF CMod(y, 4) = 0 THEN 1 ELSE 0

is_leap(y) ==
    IF CMod(y, 400) = 0 THEN 1
    ELSE IF CMod(y, 100) = 0 THEN 0
    ELSE IF CMod(y, 4) = 0 THEN 1
    ELSE 0

get_days_in_month_sept31(m, y) ==
    IF m < 1 \/ m > 12 THEN -1
    ELSE IF m = 4 \/ m = 6 \/ m = 11 THEN 30
    ELSE IF m = 1 \/ m = 3 \/ m = 5 \/ m = 7 \/ m = 8 \/ m = 9 \/ m = 10 \/ m = 12
         THEN 31
    ELSE IF m = 2 THEN (IF is_leap(y) # 0 THEN 29 ELSE 28)
    ELSE -1

get_days_in_month(m, y) ==
    IF m < 1 \/ m > 12 THEN -1
    ELSE IF m = 4 \/ m = 6 \/ m = 9 \/ m = 11 THEN 30
    ELSE IF m = 1 \/ m = 3 \/ m = 5 \/ m = 7 \/ m = 8 \/ m = 10 \/ m = 12
         THEN 31
    ELSE IF m = 2 THEN (IF is_leap(y) # 0 THEN 29 ELSE 28)
    ELSE -1

\* one printed line: what it is, the numbers and the name it carries
Line(k, ns, nm) == [kind |-> k, nums |-> ns, name |-> nm]

is_valid_date_day_le_31(d, m, y) ==
    IF y < MinYear \/ y > MaxYear
    THEN [ret |-> FALSE, out |-> <<Line("InvalidYear", <<>>, "")>>]
    ELSE IF m < 1 \/ m > 12
    THEN [ret |-> FALSE, out |-> <<Line("InvalidMonth", <<>>, "")>>]
    ELSE IF d < 1 \/ d > 31
         THEN [ret |-> FALSE,
               out |-> <<Line("InvalidDay", <<31, m, y>>, "")>>]
         ELSE [ret |-> TRUE, out |-> <<>>]

is_valid_date_month_first(d, m, y) ==
    IF m < 1 \/ m > 12
    THEN [ret |-> FALSE, out |-> <<Line("InvalidMonth", <<>>, "")>>]
    ELSE IF y < MinYear \/ y > MaxYear
    THEN [ret |-> FALSE, out |-> <<Line("InvalidYear", <<>>, "")>>]
    ELSE LET max_day == get_days_in_month(m, y) IN
         IF d < 1 \/ d > max_day
         THEN [ret |-> FALSE,
               out |-> <<Line("InvalidDay", <<max_day, m, y>>, "")>>]
         ELSE [ret |-> TRUE, out |-> <<>>]

\* the value returned and the lines printed on the way
is_valid_date(d, m, y) ==
    IF y < MinYear \/ y > MaxYear
    THEN [ret |-> FALSE, out |-> <<Line("InvalidYear", <<>>, "")>>]
    ELSE IF m < 1 \/ m > 12
    THEN [ret |-> FALSE, out |-> <<Line("InvalidMonth", <<>>, "")>>]
    ELSE LET max_day == get_days_in_month(m, y) IN
         IF d < 1 \/ d > max_day
         THEN [ret |-> FALSE,
               out |-> <<Line("InvalidDay", <<max_day, m, y>>, "")>>]
         ELSE [ret |-> TRUE, out |-> <<>>]

adjust_january_same_year(m, y) ==
    IF m = 1 THEN [month |-> 13, year |-> y]
    ELSE IF m = 2 THEN [month |-> 14, year |-> y - 1]
    ELSE [month |-> m, year |-> y]

\* the January/February shift at the head of calculate_day_of_week
adjust(m, y) ==
    IF m = 1 THEN [month |-> 13, year |-> y - 1]
    ELSE IF m = 2 THEN [month |-> 14, year |-> y - 1]
    ELSE [month |-> m, year |-> y]

\* the six terms of the sum, on the adjusted month and year
term_day(d)      == d
term_month(m)    == CDiv(13 * (m + 1), 5)
term_D(y)        == CMod(y, 100)
term_D4(y)       == CDiv(CMod(y, 100), 4)
term_C4(y)       == CDiv(CDiv(y, 100), 4)
term_5C(y)       == 5 * CDiv(y, 100)

zeller_sum(d, m, y) ==
    term_day(d) + term_month(m) + term_D(y) + term_D4(y) + term_C4(y) + term_5C(y)

zeller_minus_2C(d, m, y) ==
    CMod(term_day(d) + term_month(m) + term_D(y) + term_D4(y) + term_C4(y)
         - 2 * CDiv(y, 100), 7)

zeller_13m_minus_1(d, m, y) ==
    CMod(term_day(d) + CDiv(13 * m - 1, 5) + term_D(y) + term_D4(y)
         + term_C4(y) + term_5C(y), 7)

\* int h = (day + 13*(month+1)/5 + D + D/4 + C/4 + 5*C) % 7
zeller(d, m, y) == CMod(zeller_sum(d, m, y), 7)

calculate_day_of_week(d, m, y) ==
    LET a == adjust(m, y) IN zeller(d, a.month, a.year)

day_names_sunday_first ==
    <<"Sunday", "Monday", "Tuesday", "Wednesday", "Thursday", "Friday", "Saturday">>

day_names ==
    <<"Saturday", "Sunday", "Monday", "Tuesday", "Wednesday", "Thursday", "Friday">>

print_day_name(i) ==
    IF i >= 0 /\ i <= 6
    THEN Line("DayName", <<>>, day_names[i + 1])
    ELSE Line("InvalidIndex", <<>>, "")

----------------------------------------------------------------------------
(* main, one action per step.                                              *)

Init ==
    /\ pc = "start"
    /\ input = [n |-> 0, d |-> 0, m |-> 0, y |-> 0]
    /\ day \in Garbage /\ month \in Garbage /\ year \in Garbage
    /\ reads = 0
    /\ validated = FALSE /\ valid = FALSE
    /\ p_day = 0 /\ p_month = 0 /\ p_year = 0
    /\ calls = 0
    /\ day_index = 0
    /\ output = <<>>
    /\ status = -1
    /\ ret = 0

\* the banner and the prompt
Prompt ==
    /\ pc = "start"
    /\ pc' = "scan"
    /\ output' = output \o <<Line("Banner", <<>>, ""), Line("Prompt", <<>>, "")>>
    /\ UNCHANGED <<input, day, month, year, reads, validated, valid,
                   p_day, p_month, p_year, calls, day_index, status, ret>>

\* scanf converts n of the three fields; n = -1 is end of input.  Fewer than
\* three: the input error and exit status 1.
ScanFail ==
    /\ pc = "scan"
    /\ \E n \in {-1, 0, 1, 2}, d \in DayIn, m \in MonthIn :
          /\ input' = [n |-> n, d |-> IF n >= 1 THEN d ELSE 0,
                       m |-> IF n >= 2 THEN m ELSE 0, y |-> 0]
          /\ day' = IF n >= 1 THEN d ELSE day
          /\ month' = IF n >= 2 THEN m ELSE month
    /\ reads' = reads + 1
    /\ output' = Append(output, Line("InputError", <<>>, ""))
    /\ status' = 1
    /\ pc' = "exit"
    /\ UNCHANGED <<year, validated, valid, p_day, p_month, p_year, calls,
                   day_index, ret>>

ScanOk ==
    /\ pc = "scan"
    /\ \E d \in DayIn, m \in MonthIn, y \in YearIn :
          /\ input' = [n |-> 3, d |-> d, m |-> m, y |-> y]
          /\ day' = d /\ month' = m /\ year' = y
    /\ reads' = reads + 1
    /\ pc' = "validate"
    /\ UNCHANGED <<validated, valid, p_day, p_month, p_year, calls,
                   day_index, output, status, ret>>

ValidateFallsThrough ==
    /\ pc = "validate"
    /\ LET r == is_valid_date(day, month, year) IN
          /\ validated' = TRUE
          /\ valid' = r.ret
          /\ output' = IF r.ret THEN output \o r.out
                       ELSE output \o r.out \o <<Line("Exiting", <<>>, "")>>
          /\ pc' = "call"
          /\ status' = status
    /\ UNCHANGED <<input, day, month, year, reads, p_day, p_month, p_year,
                   calls, day_index, ret>>

\* if (!is_valid_date(day, month, year)) { printf(...); return 1; }
Validate ==
    /\ pc = "validate"
    /\ LET r == is_valid_date(day, month, year) IN
          /\ validated' = TRUE
          /\ valid' = r.ret
          /\ IF r.ret
             THEN /\ output' = output \o r.out
                  /\ pc' = "call"
                  /\ status' = status
             ELSE /\ output' = output \o r.out \o <<Line("Exiting", <<>>, "")>>
                  /\ pc' = "exit"
                  /\ status' = 1
    /\ UNCHANGED <<input, day, month, year, reads, p_day, p_month, p_year,
                   calls, day_index, ret>>

\* entry of calculate_day_of_week: the arguments are passed by value
CalcEntry ==
    /\ pc = "call"
    /\ p_day' = day /\ p_month' = month /\ p_year' = year
    /\ calls' = calls + 1
    /\ pc' = "adjust"
    /\ UNCHANGED <<input, day, month, year, reads, validated, valid,
                   day_index, output, status, ret>>

CalcAdjustThroughPointers ==
    /\ pc = "adjust"
    /\ LET a == adjust(p_month, p_year) IN
          /\ p_month' = a.month /\ p_year' = a.year
          /\ month' = a.month /\ year' = a.year
    /\ pc' = "formula"
    /\ UNCHANGED <<input, day, reads, validated, valid, p_day,
                   calls, day_index, output, status, ret>>

\* if (month == 1) {...} else if (month == 2) {...}, on the parameters
CalcAdjust ==
    /\ pc = "adjust"
    /\ LET a == adjust(p_month, p_year) IN
          /\ p_month' = a.month /\ p_year' = a.year
    /\ pc' = "formula"
    /\ UNCHANGED <<input, day, month, year, reads, validated, valid, p_day,
                   calls, day_index, output, status, ret>>

\* h is computed and returned into main's day_index
CalcReturn ==
    /\ pc = "formula"
    /\ day_index' = zeller(p_day, p_month, p_year)
    /\ pc' = "report"
    /\ UNCHANGED <<input, day, month, year, reads, validated, valid,
                   p_day, p_month, p_year, calls, output, status, ret>>

\* the result block and return 0
Report ==
    /\ pc = "report"
    /\ output' = output \o <<Line("ResultHeader", <<>>, ""),
                             Line("DateEntered", <<day, month, year>>, ""),
                             print_day_name(day_index),
                             Line("Footer", <<>>, "")>>
    /\ status' = 0
    /\ pc' = "exit"
    /\ UNCHANGED <<input, day, month, year, reads, validated, valid,
                   p_day, p_month, p_year, calls, day_index, ret>>

Next ==
    \/ Prompt
    \/ ScanFail
    \/ ScanOk
    \/ Validate
    \/ CalcEntry
    \/ CalcAdjust
    \/ CalcReturn
    \/ Report

Spec == Init /\ [][Next]_vars

----------------------------------------------------------------------------
(* The functions applied on their own to a month and a year, including     *)
(* months outside 1..12 and years outside the range main accepts.          *)

InitFn ==
    /\ pc = "fn"
    /\ input = [n |-> 0, d |-> 0, m |-> 0, y |-> 0]
    /\ day = 0
    /\ month \in MonthIn
    /\ year \in (0 - YearSpan)..YearSpan
    /\ reads = 0
    /\ validated = FALSE /\ valid = FALSE
    /\ p_day = 0 /\ p_month = 0 /\ p_year = 0
    /\ calls = 0
    /\ day_index = 0
    /\ output = <<>>
    /\ status = -1
    /\ ret = 0

ApplyIsLeap ==
    /\ pc = "fn"
    /\ ret' = is_leap(year)
    /\ pc' = "is_leap"
    /\ UNCHANGED <<input, day, month, year, reads, validated, valid,
                   p_day, p_month, p_year, calls, day_index, output, status>>

ApplyGetDaysInMonth ==
    /\ pc = "fn"
    /\ ret' = get_days_in_month(month, year)
    /\ pc' = "get_days_in_month"
    /\ UNCHANGED <<input, day, month, year, reads, validated, valid,
                   p_day, p_month, p_year, calls, day_index, output, status>>

NextFn ==
    \/ ApplyIsLeap
    \/ ApplyGetDaysInMonth

SpecFn == InitFn /\ [][NextFn]_vars

----------------------------------------------------------------------------
(* Reference calendar, by counting days: independent of the formula in     *)
(* calculate_day_of_week and of the month table in get_days_in_month.      *)
(* 1 January of year 1 of the proleptic Gregorian calendar is a Monday.    *)

RefLeap(y) == (y % 4 = 0 /\ y % 100 # 0) \/ y % 400 = 0

RefMonthLen(m, y) ==
    IF m = 2 /\ RefLeap(y) THEN 29
    ELSE <<31, 28, 31, 30, 31, 30, 31, 31, 30, 31, 30, 31>>[m]

RefIsDate(d, m, y) ==
    /\ m \in 1..12
    /\ d >= 1 /\ d <= RefMonthLen(m, y)

\* leap years among 1 .. y-1
RefLeapsBefore(y) ==
    ((y - 1) \div 4) - ((y - 1) \div 100) + ((y - 1) \div 400)

\* days from 1 January of year 1 to d/m/y
RefDayNumber(d, m, y) ==
    365 * (y - 1) + RefLeapsBefore(y)
    + <<0, 31, 59, 90, 120, 151, 181, 212, 243, 273, 304, 334>>[m]
    + (IF m > 2 /\ RefLeap(y) THEN 1 ELSE 0)
    + (d - 1)

RefWeekdayName(d, m, y) ==
    <<"Monday", "Tuesday", "Wednesday", "Thursday", "Friday", "Saturday",
      "Sunday">>[(RefDayNumber(d, m, y) % 7) + 1]

\* the weekday counted from Sunday = 0, and from Saturday = 0
RefFromSunday(d, m, y)   == (RefDayNumber(d, m, y) + 1) % 7
RefFromSaturday(d, m, y) == (RefDayNumber(d, m, y) + 2) % 7

\* the input is a real date of the supported years
RealDateRead ==
    /\ input.n = 3
    /\ input.y >= 1700 /\ input.y <= 2500
    /\ RefIsDate(input.d, input.m, input.y)

LinesOf(k) == SelectSeq(output, LAMBDA l : l.kind = k)

Kinds == [i \in 1..Len(output) |-> output[i].kind]

\* calculate_day_of_week has returned into main
Returned == calls = 1 /\ pc \in {"report", "exit"}

INT_MAX == (2^30 - 1) + 2^30

----------------------------------------------------------------------------
(* Properties of a run of main (checked under Spec).                       *)

\* C1: for every real Gregorian date of the years 1700..2500 the weekday
\* name printed by print_day_name for the index calculate_day_of_week
\* returned is the weekday the reference calendar gives for that date.
C1_PrintedWeekdayIsTrue ==
    (pc = "exit" /\ RealDateRead) =>
        /\ status = 0
        /\ print_day_name(day_index)
             = Line("DayName", <<>>, RefWeekdayName(input.d, input.m, input.y))
        /\ LinesOf("DayName")
             = <<Line("DayName", <<>>, RefWeekdayName(input.d, input.m, input.y))>>
        /\ (input.d = 15 /\ input.m = 10 /\ input.y = 2025
               => LinesOf("DayName")[1].name = "Wednesday")

C1_Witness ==
    /\ pc = "exit" /\ RealDateRead
    /\ input.d = 15 /\ input.m = 10 /\ input.y = 2025
    /\ LinesOf("DayName") = <<Line("DayName", <<>>, "Wednesday")>>

\* C2: is_valid_date returns true exactly when the year is in 1700..2500,
\* the month in 1..12 and the day in 1..get_days_in_month(month, year); it
\* is false for 29/2/2023, 31/4/2025 and 1/1/1699 and true for every real
\* Gregorian date of the years 1700..2500.
C2_ValidIffInRange ==
    validated =>
        /\ valid = (/\ year >= 1700 /\ year <= 2500
                    /\ month >= 1 /\ month <= 12
                    /\ day >= 1 /\ day <= get_days_in_month(month, year))
        /\ (<<day, month, year>> \in {<<29, 2, 2023>>, <<31, 4, 2025>>,
                                      <<1, 1, 1699>>} => ~valid)
        /\ (RealDateRead => valid)
        /\ (valid => RealDateRead)

C2_Witness ==
    /\ validated /\ ~valid
    /\ <<day, month, year>> = <<29, 2, 2023>>

\* C3: main ends in exactly one of three outcomes: the input error with
\* status 1 and nothing validated or computed; a validation diagnostic with
\* status 1 and no weekday computed; the date and a weekday name with status
\* 0.  The prompt is printed once, the input is read once, a weekday name
\* is printed only in the third outcome, and main always goes on to its end.
OutcomeInputError ==
    /\ input.n # 3 /\ status = 1
    /\ Kinds = <<"Banner", "Prompt", "InputError">>
    /\ ~validated /\ calls = 0

OutcomeInvalidDate ==
    /\ input.n = 3 /\ validated /\ ~valid /\ status = 1
    /\ Len(output) = 4
    /\ Kinds[1] = "Banner" /\ Kinds[2] = "Prompt"
    /\ Kinds[3] \in {"InvalidYear", "InvalidMonth", "InvalidDay"}
    /\ Kinds[4] = "Exiting"
    /\ calls = 0

OutcomeSuccess ==
    /\ input.n = 3 /\ validated /\ valid /\ status = 0
    /\ Kinds = <<"Banner", "Prompt", "ResultHeader", "DateEntered", "DayName",
                 "Footer">>
    /\ calls = 1

C3_ThreeOutcomes ==
    /\ pc = "exit" =>
          /\ Cardinality({o \in {"input", "invalid", "success"} :
                 \/ o = "input" /\ OutcomeInputError
                 \/ o = "invalid" /\ OutcomeInvalidDate
                 \/ o = "success" /\ OutcomeSuccess}) = 1
          /\ reads = 1
          /\ Len(LinesOf("Prompt")) = 1
    /\ pc # "exit" => status = -1
    /\ reads <= 1 /\ Len(LinesOf("Prompt")) <= 1
    /\ LinesOf("DayName") # <<>> => pc = "exit" /\ OutcomeSuccess
    /\ calls > 0 => validated /\ valid
    /\ validated => input.n = 3
    /\ pc = "exit" \/ ENABLED Next

C3_Witness ==
    pc = "exit" /\ OutcomeInvalidDate /\ Kinds[3] = "InvalidMonth"

C3_WitnessInputError ==
    pc = "exit" /\ OutcomeInputError /\ input.n = 2

\* C4: a failing is_valid_date prints exactly one diagnostic, chosen in the
\* order year, month, day; the maximum day named by the day diagnostic is
\* get_days_in_month(month, year), one of 28, 29, 30, 31 and never -1; for
\* 31/02/2025 it is 28.
Diagnostics ==
    SelectSeq(output, LAMBDA l :
        l.kind \in {"InvalidYear", "InvalidMonth", "InvalidDay"})

C4_OneDiagnosticInOrder ==
    /\ (validated /\ valid) => Diagnostics = <<>>
    /\ ~validated => Diagnostics = <<>>
    /\ (validated /\ ~valid) =>
          /\ Len(Diagnostics) = 1
          /\ IF year < 1700 \/ year > 2500
             THEN Diagnostics[1] = Line("InvalidYear", <<>>, "")
             ELSE IF month < 1 \/ month > 12
             THEN Diagnostics[1] = Line("InvalidMonth", <<>>, "")
             ELSE /\ day < 1 \/ day > get_days_in_month(month, year)
                  /\ Diagnostics[1].kind = "InvalidDay"
                  /\ Diagnostics[1].nums
                        = <<get_days_in_month(month, year), month, year>>
                  /\ Diagnostics[1].nums[1] \in {28, 29, 30, 31}
                  /\ (<<day, month, year>> = <<31, 2, 2025>>
                        => Diagnostics[1].nums[1] = 28)

C4_Witness ==
    /\ validated /\ ~valid
    /\ <<day, month, year>> = <<31, 2, 2025>>
    /\ Diagnostics = <<Line("InvalidDay", <<28, 2, 2025>>, "")>>

C4_WitnessYearBeforeMonth ==
    /\ validated /\ ~valid
    /\ year > 2500 /\ month > 12
    /\ Diagnostics = <<Line("InvalidYear", <<>>, "")>>

C8_TermsAndIndexInRange ==
    /\ pc = "formula" =>
          /\ \A t \in {term_day(p_day), term_month(p_month), 13 * (p_month + 1),
                       term_D(p_year), term_D4(p_year), term_C4(p_year),
                       term_5C(p_year), CDiv(p_year, 100),
                       zeller_sum(p_day, p_month, p_year)} :
                 t >= 0 /\ t <= INT_MAX
          /\ p_year >= 0
          /\ zeller(p_day, p_month, p_year) \in 0..6
    /\ Returned => day_index \in 0..6
    /\ LinesOf("InvalidIndex") = <<>>

C8_Witness ==
    /\ pc = "formula"
    /\ p_month = 13 /\ p_year = 1699 /\ p_day = 1
    /\ zeller_sum(p_day, p_month, p_year) > 7

C8_WitnessPrinted ==
    /\ pc = "exit" /\ status = 0
    /\ day_index = 6
    /\ LinesOf("DayName") # <<>>

\* the calendar day after d/m/y, by get_days_in_month
NextDate(d, m, y) ==
    IF d < get_days_in_month(m, y) THEN [day |-> d + 1, month |-> m, year |-> y]
    ELSE IF m < 12 THEN [day |-> 1, month |-> m + 1, year |-> y]
    ELSE [day |-> 1, month |-> 1, year |-> y + 1]

\* C9: the day after a valid date, when its year is at most 2500, gets the
\* next index modulo 7, also across the end of February, the end of
\* December and the end of a century.
C9_SuccessiveDates ==
    Returned =>
        LET Y == NextDate(day, month, year) IN
            Y.year <= 2500 =>
                calculate_day_of_week(Y.day, Y.month, Y.year)
                    = (day_index + 1) % 7

C9_Witness ==
    /\ Returned
    /\ <<day, month, year>> = <<31, 12, 1999>>
    /\ NextDate(day, month, year) = [day |-> 1, month |-> 1, year |-> 2000]
    /\ day_index = 6

C9_WitnessFebruary ==
    /\ Returned
    /\ <<day, month, year>> = <<29, 2, 2000>>
    /\ NextDate(day, month, year) = [day |-> 1, month |-> 3, year |-> 2000]

\* C10: the January/February shift changes only the copies held by
\* calculate_day_of_week: main's day, month and year stay what was read and
\* validated, and the date echoed on success is exactly that triple.
C10_MainDateUnchanged ==
    /\ input.n = 3 => <<day, month, year>> = <<input.d, input.m, input.y>>
    /\ (pc = "exit" /\ status = 0) =>
          LinesOf("DateEntered")
              = <<Line("DateEntered", <<input.d, input.m, input.y>>, "")>>

C10_Witness ==
    /\ pc = "exit" /\ status = 0
    /\ input.m = 1 /\ p_month = 13 /\ p_year = input.y - 1
    /\ month = 1 /\ year = input.y

----------------------------------------------------------------------------
(* Properties of the functions (checked under SpecFn).                     *)

\* C5: is_leap returns 1 exactly when the year is divisible by 400, or by 4
\* and not by 100, and 0 otherwise; 1 for 2000 and 2024, 0 for 1900 and 2023.
C5_LeapRule ==
    pc = "is_leap" =>
        /\ ret \in {0, 1}
        /\ (ret = 1) = ((year % 400 = 0) \/ (year % 4 = 0 /\ year % 100 # 0))
        /\ (year \in {2000, 2024} => ret = 1)
        /\ (year \in {1900, 2023} => ret = 0)

C5_Witness ==
    pc = "is_leap" /\ year = 1900 /\ ret = 0

\* C6: get_days_in_month returns 31 for months 1, 3, 5, 7, 8, 10, 12, 30 for
\* months 4, 6, 9, 11, 29 or 28 for month 2 as is_leap says, and -1 exactly
\* when the month is outside 1..12.
C6_MonthTable ==
    pc = "get_days_in_month" =>
        /\ (month \in {1, 3, 5, 7, 8, 10, 12} => ret = 31)
        /\ (month \in {4, 6, 9, 11} => ret = 30)
        /\ (month = 2 => ret = (IF is_leap(year) = 1 THEN 29 ELSE 28))
        /\ (ret = -1) = (month \notin 1..12)
        /\ (month \in 1..12 => ret = RefMonthLen(month, year))
        /\ (<<month, year>> = <<2, 2024>> => ret = 29)
        /\ (<<month, year>> = <<2, 1900>> => ret = 28)

C6_Witness ==
    pc = "get_days_in_month" /\ month = 2 /\ year = 1900 /\ ret = 28

C6_WitnessSentinel ==
    pc = "get_days_in_month" /\ month = 13 /\ ret = -1

====
